---------------------------- MODULE Spec2Model ----------------------------
(***************************************************************************)
(* State-machine model of the ASN1_Codec relay (src/src/acm.cpp):          *)
(* ASN1_Codec::operator() with configure, launch_consumer, launch_producer,*)
(* the consume-produce loop around msg_consume, and the sigterm handler.   *)
(* The broker client and the codec are external: their results (polled     *)
(* message, decoder/encoder outcome, produce status, metadata lookup) are  *)
(* inputs drawn from small sets.                                           *)
(***************************************************************************)
EXTENDS Integers, Sequences, FiniteSets, TLC

(* ------------------------------ bounds --------------------------------- *)

\* number of consume() calls explored in one run
MaxPolls == 3
\* largest message length returned by the broker client
MaxLen == 1
\* largest buffer_size the encoder leaves in the xer_buffer
MaxXerLen == 1
\* number of unsuccessful metadata lookups explored while probing
MaxProbes == 2
\* largest partition_cnt of the parameterised specification SpecParam
MaxPartitionCnt == 2
\* lines in the configuration file
MaxLines == 2
\* topics in the list handed to the wait loop
MaxTopics == 2

(* --------------------------- program constants ------------------------- *)

EXIT_SUCCESS == 0
EXIT_FAILURE == 1

\* RdKafka::Topic::PARTITION_UA, OFFSET_BEGINNING, OFFSET_END, OFFSET_STORED
PARTITION_UA == -1
OFFSET_BEGINNING == -2
OFFSET_END == -1
OFFSET_STORED == -1000

\* consumer_timeout{500}
DefaultConsumerTimeout == 500

\* RdKafka::ErrorCode values the switch of msg_consume distinguishes; OTHER
\* stands for every code that reaches the default label.
ErrorCodes ==
    {"NO_ERROR", "TIMED_OUT", "PARTITION_EOF", "UNKNOWN_TOPIC",
     "UNKNOWN_PARTITION", "OTHER"}

\* produce() status: ERR_NO_ERROR or anything else
ProduceStatus == {"NO_ERROR", "ERROR"}

\* a C++ bool returned from a function declared int
BoolAsInt(b) == IF b THEN 1 ELSE 0

VARIABLES
    pc,                 \* position in main / operator()
    data_available,     \* static bool ASN1_Codec::data_available (the running flag)
    exit_eof,
    eof_cnt,
    partition_cnt,
    msg_recv_count,
    msg_recv_bytes,
    msg_send_count,
    msg_send_bytes,
    msg_filt_count,
    msg_filt_bytes,
    first_block,
    consumed_topics,    \* sequence of topic names
    published_topic_name,
    consumer_ptr,       \* TRUE when the shared_ptr holds a consumer
    producer_ptr,
    published_topic_ptr,
    subscribed,         \* consumer_ptr->subscribe() returned no error
    topic_i,            \* index of the range-for over consumed_topics
    tcount,
    probes,             \* sleeps taken so far in the wait loop
    conf,               \* RdKafka global configuration: property -> value
    tconf,              \* RdKafka topic configuration: property -> value
    pconf,              \* settings Kafka did not accept: key -> value
    partition,
    offset,
    consumer_timeout,
    cf,                 \* history: how far configure() got and what it read
    msg,                \* message of the current (or most recent) iteration
    xb,                 \* xb.buffer_size
    ret,                \* value returned by operator(), -1 while running
    it,                 \* history: what the most recent loop body did
    h                   \* history: totals over the run

vars ==
    <<pc, data_available, exit_eof, eof_cnt, partition_cnt, msg_recv_count,
      msg_recv_bytes, msg_send_count, msg_send_bytes, msg_filt_count,
      msg_filt_bytes, first_block, consumed_topics, published_topic_name,
      consumer_ptr, producer_ptr, published_topic_ptr, subscribed, topic_i,
      tcount, probes, conf, tconf, pconf, partition, offset,
      consumer_timeout, cf, msg, xb, ret, it, h>>

counters ==
    <<msg_recv_count, msg_recv_bytes, msg_send_count, msg_send_bytes,
      msg_filt_count, msg_filt_bytes>>

session == <<consumer_ptr, producer_ptr, published_topic_ptr, subscribed>>

config == <<exit_eof, consumed_topics, published_topic_name>>

settings == <<conf, tconf, pconf, partition, offset, consumer_timeout>>

NoMsg == [err |-> "none", len |-> 0]

\* a std::unordered_map / RdKafka::Conf holding nothing
EmptyMap == [k \in {} |-> ""]

\* an option that was not given on the command line
Unset == "<unset>"

NoOptions ==
    [b |-> Unset, p |-> Unset, g |-> Unset, o |-> Unset, d |-> Unset,
     t |-> Unset, x |-> FALSE]

\* a line of the configuration file after strip and split: a comment or
\* blank line, or the pieces between the '=' signs
NoLine == [comment |-> TRUE, pieces |-> <<>>]

\* how far configure() got: step ("open", "lines", "done"), the number of
\* lines read, the line read last, the key and value of each two-piece line
\* read, the options applied, the result ("true", "false", "throws")
NoCf ==
    [step |-> "open", lines |-> 0, line |-> NoLine, pairs |-> {},
     opts |-> NoOptions, rc |-> "none"]

\* what a loop body did: handler called or not, the first_block value handed
\* to the decoder, decoder / encoder / produce outcome ("none" = not called)
NoIt ==
    [handled |-> FALSE, fb |-> "none", decode |-> "none", encode |-> "none",
     produce |-> "none"]

NoHistory ==
    [polls |-> 0, produce_calls |-> 0, decode_fb_calls |-> 0,
     decoded |-> FALSE, eofs_polled |-> 0, fatal_polled |-> FALSE,
     signalled |-> FALSE, fatal_handled |-> FALSE, eof_exit |-> FALSE,
     entered_loop |-> FALSE, failed |-> "none", confirmed |-> <<>>,
     cancelled_waiting |-> FALSE, polls_after_flag |-> 0,
     lookup |-> "none"]


(* ------------------------------ inputs --------------------------------- *)

\* topic names that occur in configuration and broker metadata
TopicNames == {"raw", "filtered"}

\* what configure() reads: the command line and the configuration file
CfgInputs ==
    [c : BOOLEAN,                         \* -c given
     file_opens : BOOLEAN,                \* the ifstream opened
     p : BOOLEAN,                         \* -p given
     file_partition : {"absent", "number", "garbage"},
     g_rejected : BOOLEAN,                \* -g given and conf->set refused it
     d_rejected : BOOLEAN,                \* -d given and conf->set refused it
     x : BOOLEAN,                         \* -x given
     file_consumer : {"absent", "raw"},   \* asn1.j2735.topic.consumer
     t : {"unset", "filtered"},           \* -t argument
     file_producer : {"absent", "filtered"}]

\* messages consumer_ptr->consume() can hand back
Messages == [err : ErrorCodes, len : 0 .. MaxLen]

\* xer_buf(): return code (0 = success) and the buffer_size it leaves
XerResults ==
    [rc : {-1}, size : 0 .. MaxXerLen] \cup [rc : {0}, size : 1 .. MaxXerLen]

\* consumer_ptr->metadata(): error code and the topics listed
MetadataResults == [err : BOOLEAN, topics : SUBSET TopicNames]

(* ------------------------------ Init ----------------------------------- *)

\* static initialiser of data_available and the constructor's member list,
\* but for the members configure() assigns for launch_consumer
InitMembers ==
    /\ data_available = TRUE
    /\ eof_cnt = 0
    /\ msg_recv_count = 0
    /\ msg_recv_bytes = 0
    /\ msg_send_count = 0
    /\ msg_send_bytes = 0
    /\ msg_filt_count = 0
    /\ msg_filt_bytes = 0
    /\ first_block = TRUE
    /\ consumer_ptr = FALSE
    /\ producer_ptr = FALSE
    /\ published_topic_ptr = FALSE
    /\ subscribed = FALSE
    /\ topic_i = 0
    /\ tcount = 0
    /\ probes = 0
    /\ conf = EmptyMap
    /\ tconf = EmptyMap
    /\ pconf = EmptyMap
    /\ partition = PARTITION_UA
    /\ offset = OFFSET_BEGINNING
    /\ consumer_timeout = DefaultConsumerTimeout
    /\ cf = NoCf
    /\ msg = NoMsg
    /\ xb = 0
    /\ ret = -1
    /\ it = NoIt
    /\ h = NoHistory

InitFields ==
    /\ InitMembers
    /\ pc = "start"
    /\ exit_eof = TRUE
    /\ consumed_topics = <<>>
    /\ published_topic_name = ""

Init ==
    /\ InitFields
    /\ partition_cnt = 1

\* the same program with partition_cnt left as a parameter
InitParam ==
    /\ InitFields
    /\ partition_cnt \in 1 .. MaxPartitionCnt

\* the lists of topics launch_consumer() can be handed
TopicLists ==
    UNION {[1 .. n -> TopicNames] : n \in 1 .. MaxTopics}

\* launch_consumer() entered after a successful configure(), with the
\* length of consumed_topics left as a parameter
InitProbe ==
    /\ InitMembers
    /\ pc = "launch_consumer"
    /\ partition_cnt = 1
    /\ exit_eof \in BOOLEAN
    /\ consumed_topics \in TopicLists
    /\ published_topic_name = "filtered"

(* --------------------------- shutdown signal --------------------------- *)

\* ASN1_Codec::sigterm, installed by operator() for SIGINT and SIGTERM
Sigterm ==
    /\ pc \notin {"start", "returned"}
    /\ UNCHANGED <<settings, cf>>
    /\ data_available' = FALSE
    /\ h' = [h EXCEPT
                !.signalled = TRUE,
                !.cancelled_waiting =
                    @ \/ ( /\ data_available
                           /\ pc \in {"probe", "metadata"}
                           /\ tcount < Len(consumed_topics) )]
    /\ UNCHANGED <<pc, eof_cnt, partition_cnt, counters, first_block, config,
                   session, topic_i, tcount, probes, msg, xb, ret, it>>

(* ------------------------------ startup -------------------------------- *)

\* operator() hands back v; why records which startup step failed
Return(v, why) ==
    /\ pc' = "returned"
    /\ ret' = v
    /\ h' = [h EXCEPT !.failed = why]

\* signal(SIGINT, sigterm); signal(SIGTERM, sigterm);
Start ==
    /\ pc = "start"
    /\ UNCHANGED <<settings, cf>>
    /\ pc' = "configure"
    /\ UNCHANGED <<data_available, eof_cnt, partition_cnt, counters,
                   first_block, config, session, topic_i, tcount, probes,
                   msg, xb, ret, it, h>>

\* configure(): rc is "true", "false" or "throws"; the members it has
\* assigned by the time it leaves
configure(cfg) ==
    LET unchanged ==
            [rc |-> "false", exit_eof |-> exit_eof,
             consumed_topics |-> consumed_topics,
             published_topic_name |-> published_topic_name]
        with_x == [unchanged EXCEPT !.exit_eof = cfg.x]
        with_consumer ==
            [with_x EXCEPT
                !.consumed_topics = Append(@, cfg.file_consumer)]
    IN  IF ~cfg.c THEN unchanged
        ELSE IF ~cfg.file_opens THEN unchanged
        ELSE IF ~cfg.p /\ cfg.file_partition = "garbage"
            THEN [unchanged EXCEPT !.rc = "throws"]
        ELSE IF cfg.g_rejected THEN unchanged
        ELSE IF cfg.d_rejected THEN with_x
        ELSE IF cfg.file_consumer = "absent" THEN with_x
        ELSE IF cfg.t # "unset"
            THEN [with_consumer EXCEPT
                    !.rc = "true", !.published_topic_name = cfg.t]
        ELSE IF cfg.file_producer # "absent"
            THEN [with_consumer EXCEPT
                    !.rc = "true",
                    !.published_topic_name = cfg.file_producer]
        ELSE with_consumer

\* try { if ( !configure() ) return EXIT_FAILURE; } catch ... return EXIT_FAILURE;
Configure ==
    /\ pc = "configure"
    /\ UNCHANGED <<settings, cf>>
    /\ \E cfg \in CfgInputs :
        LET r == configure(cfg)
        IN  /\ exit_eof' = r.exit_eof
            /\ consumed_topics' = r.consumed_topics
            /\ published_topic_name' = r.published_topic_name
            /\ IF r.rc = "true"
                THEN /\ pc' = "launch_consumer"
                     /\ UNCHANGED <<ret, h>>
                ELSE Return(EXIT_FAILURE, "configure")
    /\ UNCHANGED <<data_available, eof_cnt, partition_cnt, counters,
                   first_block, session, topic_i, tcount, probes, msg, xb,
                   it>>

\* launch_consumer(), up to the wait loop: KafkaConsumer::create
CreateConsumer ==
    /\ pc = "launch_consumer"
    /\ UNCHANGED <<settings, cf>>
    /\ \E created \in BOOLEAN :
        IF created
            THEN /\ consumer_ptr' = TRUE
                 /\ tcount' = 0
                 /\ topic_i' = 1
                 /\ pc' = "probe"
                 /\ UNCHANGED <<ret, h>>
            ELSE /\ Return(BoolAsInt(FALSE), "consumer")
                 /\ UNCHANGED <<consumer_ptr, tcount, topic_i>>
    /\ UNCHANGED <<data_available, eof_cnt, partition_cnt, counters,
                   first_block, config, producer_ptr, published_topic_ptr,
                   subscribed, probes, msg, xb, it>>

\* the for / while heads of the wait loop
ProbeLoop ==
    /\ pc = "probe"
    /\ UNCHANGED <<settings, cf>>
    /\ IF topic_i > Len(consumed_topics)
        THEN /\ pc' = "probe_done"
             /\ UNCHANGED topic_i
        ELSE IF data_available /\ tcount < Len(consumed_topics)
            THEN /\ pc' = "metadata"
                 /\ UNCHANGED topic_i
            ELSE /\ pc' = "probe"
                 /\ topic_i' = topic_i + 1
    /\ UNCHANGED <<data_available, eof_cnt, partition_cnt, counters,
                   first_block, config, session, tcount, probes, msg, xb, ret,
                   it, h>>

topic_available_any_listing(topic, md) == ~md.err

topic_available_on_error(topic, md) == md.err \/ topic \in md.topics

\* topic_available(topic)
topic_available(topic, md) == ~md.err /\ topic \in md.topics

\* one pass of the while body: topic_available, then count or sleep
ProbeTopic ==
    /\ pc = "metadata"
    /\ UNCHANGED <<settings, cf>>
    /\ \E md \in MetadataResults :
        /\ IF topic_available(consumed_topics[topic_i], md)
            THEN /\ tcount' = tcount + 1
                 /\ topic_i' = topic_i + 1
                 /\ UNCHANGED probes
            ELSE /\ probes < MaxProbes
                 /\ probes' = probes + 1
                 /\ UNCHANGED <<tcount, topic_i>>
        /\ h' = [h EXCEPT
                    !.confirmed =
                        IF ~md.err /\ consumed_topics[topic_i] \in md.topics
                            THEN Append(@, consumed_topics[topic_i])
                            ELSE @,
                    !.lookup =
                        IF md.err THEN "error"
                        ELSE IF consumed_topics[topic_i] \in md.topics
                            THEN "listed"
                            ELSE "missing"]
    /\ pc' = "probe"
    /\ UNCHANGED <<data_available, eof_cnt, partition_cnt, counters,
                   first_block, config, session, msg, xb, ret, it>>

all_available_unchecked(cnt, topics) == TRUE

\* if ( tcount == consumed_topics.size() )
all_available(cnt, topics) == cnt = Len(topics)

\* after the wait loop: subscribe, or give up (the wait loop's sleep count
\* ends with it)
Subscribe ==
    /\ pc = "probe_done"
    /\ UNCHANGED <<settings, cf>>
    /\ IF all_available(tcount, consumed_topics)
        THEN \E status \in ProduceStatus :
                IF status # "NO_ERROR"
                    THEN /\ Return(BoolAsInt(FALSE), "subscribe")
                         /\ UNCHANGED subscribed
                    ELSE /\ subscribed' = TRUE
                         /\ pc' = "launch_producer"
                         /\ UNCHANGED <<ret, h>>
        ELSE /\ Return(BoolAsInt(FALSE), "cancelled")
             /\ UNCHANGED subscribed
    /\ probes' = 0
    /\ UNCHANGED <<data_available, eof_cnt, partition_cnt, counters,
                   first_block, config, consumer_ptr, producer_ptr,
                   published_topic_ptr, topic_i, tcount, msg, xb, it>>

\* launch_producer()
LaunchProducer ==
    /\ pc = "launch_producer"
    /\ UNCHANGED <<settings, cf>>
    /\ \E created \in BOOLEAN, topic_created \in BOOLEAN :
        IF ~created
            THEN /\ Return(BoolAsInt(FALSE), "producer")
                 /\ UNCHANGED <<producer_ptr, published_topic_ptr>>
        ELSE IF ~topic_created
            THEN /\ producer_ptr' = TRUE
                 /\ Return(BoolAsInt(FALSE), "topic")
                 /\ UNCHANGED published_topic_ptr
        ELSE /\ producer_ptr' = TRUE
             /\ published_topic_ptr' = TRUE
             /\ pc' = "loop"
             /\ UNCHANGED <<ret, h>>
    /\ UNCHANGED <<data_available, eof_cnt, partition_cnt, counters,
                   first_block, config, consumer_ptr, subscribed, topic_i,
                   tcount, probes, msg, xb, it>>


(* ------------------------------ msg_consume ---------------------------- *)

\* The members msg_consume reads and writes, with what it reports back:
\* ret (its return value), fb / decode / encode (the first_block value
\* handed to the decoder and the decoder's and encoder's outcome, "none"
\* when not called) and cleared_by (the case that cleared data_available).
HandlerState ==
    [ret |-> FALSE, msg_recv_count |-> msg_recv_count,
     msg_recv_bytes |-> msg_recv_bytes, first_block |-> first_block,
     eof_cnt |-> eof_cnt, data_available |-> data_available, xb |-> xb,
     fb |-> "none", decode |-> "none", encode |-> "none",
     cleared_by |-> "none"]

\* variant: no TIMED_OUT label, the status reaches the default label
case_TIMED_OUT_default(s) == [s EXCEPT !.data_available = FALSE]

\* case RdKafka::ERR__TIMED_OUT
case_TIMED_OUT(s) == s

\* variant: the received counters are left alone
count_received_skipped(s, m) == s

\* msg_recv_count++; msg_recv_bytes += message->len();
count_received(s, m) ==
    [s EXCEPT !.msg_recv_count = @ + 1, !.msg_recv_bytes = @ + m.len]

\* variant: first_block = false is never executed
after_decode_keeps_flag(s, structure) ==
    [s EXCEPT !.decode = IF structure THEN "ok" ELSE "fail",
              !.fb = s.first_block]

\* variant: first_block = false sits before the if(!structure) check
after_decode_clears_early(s, structure) ==
    [s EXCEPT !.decode = IF structure THEN "ok" ELSE "fail",
              !.fb = s.first_block, !.first_block = FALSE]

\* variant: a failed decode ends the loop
after_decode_fatal(s, structure) ==
    IF ~structure
        THEN [s EXCEPT !.decode = "fail", !.fb = s.first_block,
                       !.data_available = FALSE]
        ELSE [s EXCEPT !.decode = "ok", !.fb = s.first_block,
                       !.first_block = FALSE]

\* if(!structure) { ... return false; }  first_block = false;
after_decode(s, structure) ==
    IF ~structure
        THEN [s EXCEPT !.decode = "fail", !.fb = s.first_block]
        ELSE [s EXCEPT !.decode = "ok", !.fb = s.first_block,
                       !.first_block = FALSE]

\* variant: the encoder's failure branch lacks its return false
after_encode_no_return(s, xer) ==
    [s EXCEPT !.encode = IF xer.rc # 0 THEN "fail" ELSE "ok",
              !.xb = xer.size, !.ret = TRUE]

\* if( xer_buf(...) ) { ... return false; }  ...  return true;
after_encode(s, xer) ==
    IF xer.rc # 0
        THEN [s EXCEPT !.encode = "fail", !.xb = xer.size]
        ELSE [s EXCEPT !.encode = "ok", !.xb = xer.size, !.ret = TRUE]

\* variant: first_block = false sits after the encoder's failure branch
case_NO_ERROR_clears_after_encode(s, m, structure, xer) ==
    LET decoded == after_decode_keeps_flag(count_received(s, m), structure)
        encoded == after_encode(decoded, xer)
    IN  IF decoded.decode = "fail" THEN decoded
        ELSE IF encoded.ret THEN [encoded EXCEPT !.first_block = FALSE]
        ELSE encoded

\* case RdKafka::ERR_NO_ERROR; structure is whether the decoder returned one
case_NO_ERROR(s, m, structure, xer) ==
    LET decoded == after_decode(count_received(s, m), structure)
    IN  IF decoded.decode = "fail" THEN decoded ELSE after_encode(decoded, xer)

\* variant: any counted end of partition ends the loop
eof_reached_any(cnt, pcnt) == cnt >= 1

\* if (eof_cnt == partition_cnt)
eof_reached(cnt, pcnt) == cnt = pcnt

\* variant: the end of partition is counted whatever exit_eof says
case_PARTITION_EOF_always_counts(s) ==
    LET cnt == s.eof_cnt + 1
    IN  IF eof_reached(cnt, partition_cnt)
            THEN [s EXCEPT !.eof_cnt = cnt, !.data_available = FALSE,
                           !.cleared_by = "eof"]
            ELSE [s EXCEPT !.eof_cnt = cnt]

\* case RdKafka::ERR__PARTITION_EOF
case_PARTITION_EOF(s) ==
    IF exit_eof
        THEN LET cnt == s.eof_cnt + 1
             IN  IF eof_reached(cnt, partition_cnt)
                    THEN [s EXCEPT !.eof_cnt = cnt, !.data_available = FALSE,
                                   !.cleared_by = "eof"]
                    ELSE [s EXCEPT !.eof_cnt = cnt]
        ELSE s

\* case ERR__UNKNOWN_TOPIC (falls through), case ERR__UNKNOWN_PARTITION, default
case_fatal(s) == [s EXCEPT !.data_available = FALSE, !.cleared_by = "fatal"]

\* switch (message->err())
msg_consume(s, m, structure, xer) ==
    CASE m.err = "TIMED_OUT" -> case_TIMED_OUT(s)
      [] m.err = "NO_ERROR" -> case_NO_ERROR(s, m, structure, xer)
      [] m.err = "PARTITION_EOF" -> case_PARTITION_EOF(s)
      [] OTHER -> case_fatal(s)

(* ---------------------------- consume-produce loop --------------------- *)

LoopHead_unconditional ==
    /\ pc = "loop"
    /\ UNCHANGED <<settings, cf>>
    /\ pc' = "consume"
    /\ xb' = 0
    /\ h' = [h EXCEPT !.entered_loop = TRUE]
    /\ UNCHANGED <<data_available, eof_cnt, partition_cnt, counters,
                   first_block, config, session, topic_i, tcount, probes, msg,
                   ret, it>>

\* while (data_available) { xb.buffer_size = 0; ...
LoopHead ==
    /\ pc = "loop"
    /\ UNCHANGED <<settings, cf>>
    /\ IF data_available
        THEN /\ pc' = "consume"
             /\ xb' = 0
        ELSE /\ pc' = "summary"
             /\ UNCHANGED xb
    /\ h' = [h EXCEPT !.entered_loop = TRUE]
    /\ UNCHANGED <<data_available, eof_cnt, partition_cnt, counters,
                   first_block, config, session, topic_i, tcount, probes, msg,
                   ret, it>>

\* msg{ consumer_ptr->consume( consumer_timeout ) }
Consume ==
    /\ pc = "consume"
    /\ UNCHANGED <<settings, cf>>
    /\ h.polls < MaxPolls
    /\ \E m \in Messages :
        /\ msg' = m
        /\ h' = [h EXCEPT
                    !.polls = @ + 1,
                    !.polls_after_flag =
                        IF data_available THEN @ ELSE @ + 1,
                    !.eofs_polled =
                        IF m.err = "PARTITION_EOF" THEN @ + 1 ELSE @,
                    !.fatal_polled =
                        @ \/ m.err \in {"UNKNOWN_TOPIC", "UNKNOWN_PARTITION",
                                        "OTHER"}]
    /\ pc' = "body"
    /\ it' = NoIt
    /\ UNCHANGED <<data_available, eof_cnt, partition_cnt, counters,
                   first_block, config, session, topic_i, tcount, probes, xb,
                   ret>>

\* variant: the handler runs for every message
handler_called_always(m) == TRUE

\* msg->len() > 0 && msg_consume(msg.get(), &xb): the handler runs only for
\* a message of non-zero length
handler_called(m) == m.len > 0

\* variant: the counters advance whatever produce() reported
count_sent_unchecked(status, count, bytes, size) == <<count + 1, bytes + size>>

\* if (status != ERR_NO_ERROR) log; else { msg_send_count++;
\* msg_send_bytes += xb.buffer_size; }: the new <<count, bytes>>
count_sent(status, count, bytes, size) ==
    IF status # "NO_ERROR" THEN <<count, bytes>> ELSE <<count + 1, bytes + size>>

\* the if statement of the loop body: handler, then produce
Body ==
    /\ pc = "body"
    /\ UNCHANGED <<settings, cf>>
    /\ \E structure \in BOOLEAN, xer \in XerResults, status \in ProduceStatus :
        LET called == handler_called(msg)
            r == IF called
                    THEN msg_consume(HandlerState, msg, structure, xer)
                    ELSE HandlerState
            publish == called /\ r.ret
            sent == IF publish
                        THEN count_sent(status, msg_send_count,
                                        msg_send_bytes, r.xb)
                        ELSE <<msg_send_count, msg_send_bytes>>
        IN  /\ msg_recv_count' = r.msg_recv_count
            /\ msg_recv_bytes' = r.msg_recv_bytes
            /\ first_block' = r.first_block
            /\ eof_cnt' = r.eof_cnt
            /\ data_available' = r.data_available
            /\ xb' = r.xb
            /\ msg_send_count' = sent[1]
            /\ msg_send_bytes' = sent[2]
            /\ it' = [handled |-> called, fb |-> r.fb, decode |-> r.decode,
                      encode |-> r.encode,
                      produce |-> IF publish THEN status ELSE "none"]
            /\ h' = [h EXCEPT
                        !.produce_calls = IF publish THEN @ + 1 ELSE @,
                        !.decode_fb_calls =
                            IF r.decode # "none" /\ r.fb = TRUE
                                THEN @ + 1 ELSE @,
                        !.decoded = @ \/ r.decode = "ok",
                        !.fatal_handled = @ \/ r.cleared_by = "fatal",
                        !.eof_exit = @ \/ r.cleared_by = "eof"]
    /\ pc' = "loop"
    /\ UNCHANGED <<partition_cnt, msg_filt_count, msg_filt_bytes, config,
                   session, topic_i, tcount, probes, msg, ret>>

\* the summary after the loop; return EXIT_SUCCESS;
Summary ==
    /\ pc = "summary"
    /\ UNCHANGED <<settings, cf>>
    /\ pc' = "returned"
    /\ ret' = EXIT_SUCCESS
    /\ UNCHANGED <<data_available, eof_cnt, partition_cnt, counters,
                   first_block, config, session, topic_i, tcount, probes,
                   msg, xb, it, h>>

(* ------------------------- configure(), in detail ---------------------- *)

\* the characters of the strings that reach a numeric conversion
Characters ==
    ("3" :> <<"3">>) @@ ("4" :> <<"4">>) @@ ("7" :> <<"7">>) @@
    ("12" :> <<"1", "2">>) @@ ("y" :> <<"y">>) @@ ("z" :> <<"z">>)

DigitValue ==
    ("0" :> 0) @@ ("1" :> 1) @@ ("2" :> 2) @@ ("3" :> 3) @@ ("4" :> 4) @@
    ("5" :> 5) @@ ("6" :> 6) @@ ("7" :> 7) @@ ("8" :> 8) @@ ("9" :> 9)

\* the decimal digits at the front of cs from position i on: how many were
\* read (n) and the number they spell (val)
RECURSIVE parse_digits(_, _, _)
parse_digits(cs, i, acc) ==
    IF i > Len(cs) \/ cs[i] \notin DOMAIN DigitValue
        THEN [n |-> i - 1, val |-> acc]
        ELSE parse_digits(cs, i + 1, acc * 10 + DigitValue[cs[i]])

\* std::stoi: throws std::invalid_argument when no conversion can be done
stoi(text) ==
    LET r == parse_digits(Characters[text], 1, 0)
    IN  IF r.n = 0 THEN [ok |-> FALSE, val |-> 0]
                   ELSE [ok |-> TRUE, val |-> r.val]

\* strtoll(o.c_str(), NULL, 10): 0 when no conversion can be done
strtoll(text) == parse_digits(Characters[text], 1, 0).val

\* Tool::optInt for an argument that spells a number
optInt(text) == stoi(text).val

\* tconf->set(key, value, error_string) == CONF_OK: the key is a topic
\* property of the client library
tconf_accepts(key, value) ==
    key \in {"request.required.acks", "compression.codec"}

\* conf->set(key, value, error_string) == CONF_OK: the key is a global
\* property of the client library and the value is one the property takes
conf_accepts(key, value) ==
    \/ key \in {"metadata.broker.list", "group.id", "compression.codec"}
    \/ key = "debug" /\ value # "bogus"

\* m[key] = value
Put(m, key, value) ==
    [k \in DOMAIN m \cup {key} |-> IF k = key THEN value ELSE m[k]]

Pair(key, value) == [comment |-> FALSE, pieces |-> <<key, value>>]

\* the lines std::getline can hand to the ingestion loop
FileLines ==
    { [comment |-> TRUE, pieces |-> <<>>],
      [comment |-> FALSE, pieces |-> <<"a", "b", "c">>],
      Pair("metadata.broker.list", "h1"),
      Pair("group.id", "g1"),
      Pair("debug", "all"),
      Pair("debug", "bogus"),
      Pair("request.required.acks", "1"),
      Pair("compression.codec", "gzip"),
      Pair("asn1.j2735.kafka.partition", "3"),
      Pair("asn1.j2735.kafka.partition", "y"),
      Pair("asn1.j2735.topic.consumer", "raw"),
      Pair("asn1.j2735.topic.producer", "filtered"),
      Pair("asn1.j2735.consumer.timeout.ms", "7"),
      Pair("asn1.j2735.consumer.timeout.ms", "y") }

\* the three stores configure() fills
Stores == [conf |-> conf, tconf |-> tconf, pconf |-> pconf]

\* the body of if (pieces.size() == 2): the two offers and the fallback
ingest_pair_first_wins(s, key, value) ==
    LET t_ok == tconf_accepts(key, value)
        g_ok == ~t_ok /\ conf_accepts(key, value)
    IN  [tconf |-> IF t_ok THEN Put(s.tconf, key, value) ELSE s.tconf,
         conf |-> IF g_ok THEN Put(s.conf, key, value) ELSE s.conf,
         pconf |-> IF ~(t_ok \/ g_ok) THEN Put(s.pconf, key, value)
                                       ELSE s.pconf]

ingest_pair_always_kept(s, key, value) ==
    LET t_ok == tconf_accepts(key, value)
        g_ok == conf_accepts(key, value)
    IN  [tconf |-> IF t_ok THEN Put(s.tconf, key, value) ELSE s.tconf,
         conf |-> IF g_ok THEN Put(s.conf, key, value) ELSE s.conf,
         pconf |-> Put(s.pconf, key, value)]

ingest_pair(s, key, value) ==
    LET t_ok == tconf_accepts(key, value)
        g_ok == conf_accepts(key, value)
        done == t_ok \/ g_ok
    IN  [tconf |-> IF t_ok THEN Put(s.tconf, key, value) ELSE s.tconf,
         conf |-> IF g_ok THEN Put(s.conf, key, value) ELSE s.conf,
         pconf |-> IF ~done THEN Put(s.pconf, key, value) ELSE s.pconf]

\* one turn of while (std::getline( ifs, line ))
ingest_line(s, line) ==
    IF line.comment THEN s
    ELSE IF Len(line.pieces) = 2
        THEN ingest_pair(s, line.pieces[1], line.pieces[2])
        ELSE s

\* if ( !optIsSet('c') ) return false; ... if (!ifs) return false;
ConfigureOpen ==
    /\ pc = "configure"
    /\ cf.step = "open"
    /\ \E c_set \in BOOLEAN, file_opens \in BOOLEAN :
        IF c_set /\ file_opens
            THEN /\ cf' = [cf EXCEPT !.step = "lines"]
                 /\ UNCHANGED <<pc, ret, h>>
            ELSE /\ cf' = [cf EXCEPT !.step = "done", !.rc = "false"]
                 /\ Return(EXIT_FAILURE, "configure")
    /\ UNCHANGED <<data_available, eof_cnt, partition_cnt, counters,
                   first_block, config, session, topic_i, tcount, probes,
                   settings, msg, xb, it>>

\* the ingestion loop reads one more line of the file
ReadLine ==
    /\ pc = "configure"
    /\ cf.step = "lines"
    /\ cf.lines < MaxLines
    /\ \E line \in FileLines :
        LET s == ingest_line(Stores, line)
        IN  /\ conf' = s.conf
            /\ tconf' = s.tconf
            /\ pconf' = s.pconf
            /\ cf' = [cf EXCEPT
                        !.lines = @ + 1,
                        !.line = line,
                        !.pairs = IF ~line.comment /\ Len(line.pieces) = 2
                                    THEN @ \cup {line.pieces}
                                    ELSE @]
    /\ UNCHANGED <<pc, data_available, eof_cnt, partition_cnt, counters,
                   first_block, config, session, topic_i, tcount, probes,
                   partition, offset, consumer_timeout, msg, xb, ret, it, h>>

\* the command lines configure() is run with
Options ==
    [b : {Unset, "h2"}, p : {Unset, "4"}, g : {Unset, "g2"},
     o : {Unset, "end", "12", "z"}, d : {Unset, "broker", "bogus"},
     t : {Unset, "out"}, x : BOOLEAN]

\* the members the second half of configure() works on; rc is "running"
\* until it returns ("true", "false") or throws ("throws")
CfgState ==
    [conf |-> conf, pconf |-> pconf, partition |-> partition,
     offset |-> offset, exit_eof |-> exit_eof,
     consumed_topics |-> consumed_topics,
     published_topic_name |-> published_topic_name,
     consumer_timeout |-> consumer_timeout, rc |-> "running"]

\* if ( optIsSet('b') ) conf->set("metadata.broker.list", optString('b'), ...)
resolve_broker(s, o) ==
    IF o.b # Unset /\ conf_accepts("metadata.broker.list", o.b)
        THEN [s EXCEPT !.conf = Put(@, "metadata.broker.list", o.b)]
        ELSE s

\* if ( optIsSet('p') ) partition = optInt('p'); else the file's value
resolve_partition(s, o) ==
    IF o.p # Unset THEN [s EXCEPT !.partition = optInt(o.p)]
    ELSE IF "asn1.j2735.kafka.partition" \in DOMAIN s.pconf
        THEN LET r == stoi(s.pconf["asn1.j2735.kafka.partition"])
             IN  IF r.ok THEN [s EXCEPT !.partition = r.val]
                         ELSE [s EXCEPT !.rc = "throws"]
        ELSE s

\* if ( getOption('g').isSet() && conf->set("group.id", ...) != CONF_OK )
resolve_group(s, o) ==
    IF o.g = Unset THEN s
    ELSE IF conf_accepts("group.id", o.g)
        THEN [s EXCEPT !.conf = Put(@, "group.id", o.g)]
        ELSE [s EXCEPT !.rc = "false"]

\* if ( getOption('o').isSet() ) ...
resolve_offset(s, o) ==
    IF o.o = Unset THEN s
    ELSE IF o.o = "end" THEN [s EXCEPT !.offset = OFFSET_END]
    ELSE IF o.o = "beginning" THEN [s EXCEPT !.offset = OFFSET_BEGINNING]
    ELSE IF o.o = "stored" THEN [s EXCEPT !.offset = OFFSET_STORED]
    ELSE [s EXCEPT !.offset = strtoll(o.o)]

\* exit_eof = getOption('x').isSet();
resolve_exit_eof(s, o) == [s EXCEPT !.exit_eof = o.x]

\* if (optIsSet('d') && conf->set("debug", ...) != CONF_OK) return false;
resolve_debug(s, o) ==
    IF o.d = Unset THEN s
    ELSE IF conf_accepts("debug", o.d)
        THEN [s EXCEPT !.conf = Put(@, "debug", o.d)]
        ELSE [s EXCEPT !.rc = "false"]

resolve_consumer_lenient(s) ==
    IF "asn1.j2735.topic.consumer" \in DOMAIN s.pconf
        THEN [s EXCEPT !.consumed_topics =
                        Append(@, s.pconf["asn1.j2735.topic.consumer"])]
        ELSE s

\* the consumer topic: pconf.find("asn1.j2735.topic.consumer")
resolve_consumer(s) ==
    IF "asn1.j2735.topic.consumer" \in DOMAIN s.pconf
        THEN [s EXCEPT !.consumed_topics =
                        Append(@, s.pconf["asn1.j2735.topic.consumer"])]
        ELSE [s EXCEPT !.rc = "false"]

resolve_producer_file_first(s, o) ==
    IF "asn1.j2735.topic.producer" \in DOMAIN s.pconf
        THEN [s EXCEPT !.published_topic_name =
                        s.pconf["asn1.j2735.topic.producer"]]
    ELSE IF o.t # Unset THEN [s EXCEPT !.published_topic_name = o.t]
    ELSE [s EXCEPT !.rc = "false"]

\* the producer topic: -t, else pconf.find("asn1.j2735.topic.producer")
resolve_producer(s, o) ==
    IF o.t # Unset THEN [s EXCEPT !.published_topic_name = o.t]
    ELSE IF "asn1.j2735.topic.producer" \in DOMAIN s.pconf
        THEN [s EXCEPT !.published_topic_name =
                        s.pconf["asn1.j2735.topic.producer"]]
        ELSE [s EXCEPT !.rc = "false"]

resolve_timeout_strict(s) ==
    IF "asn1.j2735.consumer.timeout.ms" \in DOMAIN s.pconf
        THEN LET r == stoi(s.pconf["asn1.j2735.consumer.timeout.ms"])
             IN  IF r.ok THEN [s EXCEPT !.consumer_timeout = r.val]
                         ELSE [s EXCEPT !.rc = "throws"]
        ELSE s

\* try { consumer_timeout = std::stoi( search->second ); } catch ... { }
resolve_timeout(s) ==
    IF "asn1.j2735.consumer.timeout.ms" \in DOMAIN s.pconf
        THEN LET r == stoi(s.pconf["asn1.j2735.consumer.timeout.ms"])
             IN  IF r.ok THEN [s EXCEPT !.consumer_timeout = r.val] ELSE s
        ELSE s

\* configure() from the CLI overrides to its end; each return and the throw
\* leave the members as assigned so far
apply_options(s0, o) ==
    LET s1 == resolve_partition(resolve_broker(s0, o), o)
        s2 == resolve_group(s1, o)
        s3 == resolve_debug(resolve_exit_eof(resolve_offset(s2, o), o), o)
        s4 == resolve_consumer(s3)
        s5 == resolve_producer(s4, o)
        s6 == resolve_timeout(s5)
    IN  IF s1.rc # "running" THEN s1
        ELSE IF s2.rc # "running" THEN s2
        ELSE IF s3.rc # "running" THEN s3
        ELSE IF s4.rc # "running" THEN s4
        ELSE IF s5.rc # "running" THEN s5
        ELSE IF s6.rc # "running" THEN s6
        ELSE [s6 EXCEPT !.rc = "true"]

\* end of file reached: the rest of configure(), then operator()'s test of
\* its result (an exception is caught there and also ends in EXIT_FAILURE)
ApplyOptions ==
    /\ pc = "configure"
    /\ cf.step = "lines"
    /\ \E o \in Options :
        LET r == apply_options(CfgState, o)
        IN  /\ conf' = r.conf
            /\ partition' = r.partition
            /\ offset' = r.offset
            /\ exit_eof' = r.exit_eof
            /\ consumed_topics' = r.consumed_topics
            /\ published_topic_name' = r.published_topic_name
            /\ consumer_timeout' = r.consumer_timeout
            /\ cf' = [cf EXCEPT !.step = "done", !.opts = o, !.rc = r.rc]
            /\ IF r.rc = "true"
                THEN /\ pc' = "launch_consumer"
                     /\ UNCHANGED <<ret, h>>
                ELSE Return(EXIT_FAILURE, "configure")
    /\ UNCHANGED <<data_available, eof_cnt, partition_cnt, counters,
                   first_block, session, topic_i, tcount, probes, tconf,
                   pconf, msg, xb, it>>

\* configure() line by line, then the consumer's creation
NextConfig ==
    \/ Start
    \/ ConfigureOpen
    \/ ReadLine
    \/ ApplyOptions
    \/ CreateConsumer

SpecConfig == Init /\ [][NextConfig]_vars

(* --------------------------- specifications ---------------------------- *)

\* launch_consumer() alone: the wait loop and the subscription
NextProbe ==
    \/ Sigterm
    \/ CreateConsumer
    \/ ProbeLoop
    \/ ProbeTopic
    \/ Subscribe

SpecProbe == InitProbe /\ [][NextProbe]_vars


Next ==
    \/ Start
    \/ Configure
    \/ CreateConsumer
    \/ ProbeLoop
    \/ ProbeTopic
    \/ Subscribe
    \/ LaunchProducer
    \/ LoopHead
    \/ Consume
    \/ Body
    \/ Summary
    \/ Sigterm

\* the program as built: partition_cnt is 1
Spec == Init /\ [][Next]_vars

\* the program with partition_cnt as a parameter
SpecParam == InitParam /\ [][Next]_vars

\* where the program stands: every step of operator() moves it
position == <<pc, topic_i>>

\* the program with every call returning: a step that can be taken is taken
SpecLive == Init /\ [][Next]_vars /\ WF_position(Next)


(* ------------------------------- claims -------------------------------- *)

\* a step that executes one loop body (handler and produce)
BodyStep == pc = "body" /\ pc' = "loop"

FatalCodes == {"UNKNOWN_TOPIC", "UNKNOWN_PARTITION", "OTHER"}

\* operator() got past startup
StartupDone ==
    h.failed = "none" /\ pc \in {"loop", "consume", "body", "summary", "returned"}

\* C1: a publish attempt happens only in an iteration whose message has
\* status NO_ERROR and whose decode and encode both succeeded; an iteration
\* whose decode failed leaves msg_send_count / msg_send_bytes alone, and an
\* iteration whose encode failed makes no publish attempt.
C1_PublishOnlyAfterTransform ==
    [][/\ (h'.produce_calls # h.produce_calls \/ msg_send_count' # msg_send_count
             \/ msg_send_bytes' # msg_send_bytes)
            => /\ BodyStep
               /\ msg.err = "NO_ERROR"
               /\ it'.decode = "ok"
               /\ it'.encode = "ok"
       /\ (BodyStep /\ it'.decode = "fail")
            => UNCHANGED <<msg_send_count, msg_send_bytes>>
       /\ (BodyStep /\ it'.encode = "fail")
            => h'.produce_calls = h.produce_calls]_vars

\* C1 witness: one message was published, an earlier decode failed and the
\* latest iteration's encode failed
C1_Witness ==
    /\ pc = "loop"
    /\ it.encode = "fail"
    /\ h.decode_fb_calls = 2
    /\ h.produce_calls = 1
    /\ msg_send_count = 1

\* C2 as stated: every NO_ERROR message runs the transform; a successful
\* transform is published and counted, a failed one advances only the
\* received counters.
C2_Original ==
    [][(BodyStep /\ msg.err = "NO_ERROR")
        => /\ it'.decode # "none"
           /\ msg_recv_count' = msg_recv_count + 1
           /\ msg_recv_bytes' = msg_recv_bytes + msg.len
           /\ IF it'.encode = "ok"
                THEN /\ h'.produce_calls = h.produce_calls + 1
                     /\ msg_send_count' = msg_send_count + 1
                     /\ msg_send_bytes' = msg_send_bytes + xb'
                ELSE UNCHANGED <<msg_send_count, msg_send_bytes>>]_vars

\* C2 amended: a NO_ERROR message of length 0 is skipped with no counter
\* changed; one of non-zero length runs the transform and advances the
\* received counters; after a successful transform a publish is attempted
\* and, when produce reports no error, msg_send_count grows by one and
\* msg_send_bytes by the output length, otherwise the sent counters stay;
\* after a failed transform only the received counters have changed.
C2_TransformAndCount ==
    [][(BodyStep /\ msg.err = "NO_ERROR")
        => IF msg.len = 0
            THEN /\ it'.decode = "none"
                 /\ h'.produce_calls = h.produce_calls
                 /\ UNCHANGED <<counters, eof_cnt, first_block>>
            ELSE /\ it'.decode # "none"
                 /\ msg_recv_count' = msg_recv_count + 1
                 /\ msg_recv_bytes' = msg_recv_bytes + msg.len
                 /\ UNCHANGED <<msg_filt_count, msg_filt_bytes, eof_cnt>>
                 /\ IF it'.encode = "ok"
                      THEN /\ h'.produce_calls = h.produce_calls + 1
                           /\ IF it'.produce = "NO_ERROR"
                                THEN /\ msg_send_count' = msg_send_count + 1
                                     /\ msg_send_bytes' = msg_send_bytes + xb'
                                ELSE UNCHANGED <<msg_send_count, msg_send_bytes>>
                      ELSE /\ h'.produce_calls = h.produce_calls
                           /\ UNCHANGED <<msg_send_count, msg_send_bytes>>]_vars

\* C2 witness: two publish attempts, the first refused by produce, the
\* second accepted and counted
C2_Witness ==
    /\ pc = "loop"
    /\ msg.err = "NO_ERROR"
    /\ it.produce = "NO_ERROR"
    /\ h.produce_calls = 2
    /\ msg_send_count = 1
    /\ msg_send_bytes = xb

\* C3: an iteration whose message has status TIMED_OUT changes no counter,
\* nor eof_cnt, first_block or data_available, makes no publish attempt and
\* goes back to the loop head.
C3_TimedOutFrame ==
    [][(pc = "body" /\ pc' # "body" /\ msg.err = "TIMED_OUT")
        => /\ UNCHANGED <<counters, eof_cnt, first_block, data_available>>
           /\ h'.produce_calls = h.produce_calls
           /\ pc' = "loop"]_vars

\* C3 witness: the handler has run on a TIMED_OUT message after a message
\* was received, and the loop is still running
C3_Witness ==
    /\ pc = "consume"
    /\ msg.err = "TIMED_OUT"
    /\ it.handled
    /\ msg_recv_count = 1
    /\ data_available

\* C4: the end-of-partition accounting clears data_available only with
\* eof_cnt equal to partition_cnt, and while fewer PARTITION_EOF messages
\* than partition_cnt were polled, with no fatal status polled and no
\* signal, the loop has not terminated.
C4_FewerEofsKeepRunning ==
    /\ h.eof_exit => eof_cnt = partition_cnt
    /\ (StartupDone /\ h.eofs_polled < partition_cnt /\ ~h.fatal_polled
            /\ ~h.signalled)
        => data_available /\ pc \in {"loop", "consume", "body"}

\* C4 witness: two partitions, one end of partition counted, loop polling on
C4_Witness ==
    /\ partition_cnt = 2
    /\ exit_eof
    /\ eof_cnt = 1
    /\ h.eofs_polled = 1
    /\ data_available
    /\ pc = "consume"

\* C5 as stated: with exit_eof set every polled PARTITION_EOF message
\* increments eof_cnt, and data_available is cleared when eof_cnt reaches
\* partition_cnt.
C5_Original ==
    [][(BodyStep /\ msg.err = "PARTITION_EOF" /\ exit_eof)
        => /\ eof_cnt' = eof_cnt + 1
           /\ (eof_cnt' = partition_cnt => ~data_available')]_vars

\* C6 as stated: an iteration whose message has status UNKNOWN_TOPIC,
\* UNKNOWN_PARTITION or any other error clears data_available.
C6_Original ==
    [][(BodyStep /\ msg.err \in FatalCodes) => ~data_available']_vars

\* C7 as stated: over the decode invocations of a run, first_block is true
\* for exactly one of them.
C7_Original == msg_recv_count >= 1 => h.decode_fb_calls = 1

\* C7 amended: first_block is true for every decode invocation up to and
\* including the first one that returns a structure, and false for every
\* later one; decode failures before the first success see it true again.
C7_FlagUntilFirstSuccess ==
    [][(BodyStep /\ it'.decode # "none")
        => (it'.fb = TRUE <=> ~h.decoded)]_vars

\* C7 witness: two decode invocations saw the flag true (the first failed),
\* and the latest one saw it false
C7_Witness ==
    /\ pc = "loop"
    /\ h.decode_fb_calls = 2
    /\ it.decode # "none"
    /\ it.fb = FALSE

\* C8: a decode that returns no structure leaves first_block as it was and
\* changes no counter but msg_recv_count (by one) and msg_recv_bytes (by
\* the message length).
C8_DecodeFailureFrame ==
    [][(BodyStep /\ it'.decode = "fail")
        => /\ first_block' = first_block
           /\ msg_recv_count' = msg_recv_count + 1
           /\ msg_recv_bytes' = msg_recv_bytes + msg.len
           /\ UNCHANGED <<msg_send_count, msg_send_bytes, msg_filt_count,
                          msg_filt_bytes, eof_cnt>>]_vars

\* C8 witness: the first decode of the run failed and first_block is still set
C8_Witness ==
    /\ pc = "loop"
    /\ it.decode = "fail"
    /\ it.fb = TRUE
    /\ first_block
    /\ msg_recv_count = 1

\* C9 as stated: when consumer creation, probing / subscription or producer /
\* output-topic creation fails, operator() hands a non-zero status to
\* std::exit and the loop was never entered.
C9_Original ==
    (pc = "returned"
        /\ h.failed \in {"consumer", "cancelled", "subscribe", "producer", "topic"})
        => ret # 0 /\ ~h.entered_loop

\* C10 as stated: the status returned after the loop is non-zero when a
\* fatal broker status cleared data_available and 0 when the end-of-partition
\* accounting or the signal did.
C10_Original ==
    (pc = "returned" /\ h.failed = "none")
        => IF h.fatal_handled THEN ret # 0 ELSE ret = 0


\* configure() has run to its end (a return or a throw) with the file read
ConfigureDone == cf.step = "done" /\ cf.rc # "none"

\* the keys of the key=value lines read from the file
FileKeys == {kv[1] : kv \in cf.pairs}

\* the file names the consumer topic; the file or -t names the producer topic
ConsumerTopicGiven == "asn1.j2735.topic.consumer" \in FileKeys

ProducerTopicGiven ==
    cf.opts.t # Unset \/ "asn1.j2735.topic.producer" \in FileKeys

\* C11: when the consumer topic or the producer topic is named by neither
\* the configuration file nor the command line, configure() does not succeed,
\* operator() returns a non-zero status as a configuration failure, and
\* neither the consumer nor the producer has been created.
C11_MissingTopicIsFatal ==
    (ConfigureDone /\ ~(ConsumerTopicGiven /\ ProducerTopicGiven)) =>
        /\ cf.rc # "true"
        /\ pc = "returned"
        /\ ret # EXIT_SUCCESS
        /\ h.failed = "configure"
        /\ ~consumer_ptr
        /\ ~producer_ptr
        /\ ~subscribed

\* the file was read, it names the consumer topic, nothing names the
\* producer topic and nothing else is wrong: the run ended in a failure
C11_Witness ==
    /\ ConfigureDone
    /\ cf.lines >= 1
    /\ ConsumerTopicGiven
    /\ ~ProducerTopicGiven
    /\ cf.opts.d # "bogus"
    /\ "asn1.j2735.kafka.partition" \notin FileKeys
    /\ cf.rc = "false"
    /\ ret = EXIT_FAILURE


\* the step on which a successful configure() applies the command line
OptionsStep == cf.step = "lines" /\ cf'.step = "done" /\ cf'.rc = "true"

\* the value a store holds for a key
Lookup(m, key) == IF key \in DOMAIN m THEN m[key] ELSE "<absent>"

\* the offset an -o argument names: a symbolic position or a literal number
OffsetNamed(text) ==
    CASE text = "end" -> OFFSET_END
      [] text = "beginning" -> OFFSET_BEGINNING
      [] text = "stored" -> OFFSET_STORED
      [] OTHER -> stoi(text).val

OffsetParsable(text) ==
    text \in {"end", "beginning", "stored"} \/ stoi(text).ok

\* C12: on a successful configuration each overridable setting (broker
\* address, partition, group id, starting offset, debug string, producer
\* topic) ends with the command-line value when its option is given,
\* whatever the file holds, and with the value standing after the file was
\* read when the option is omitted.
C12_CommandLineOverridesFile ==
    [][OptionsStep =>
        LET o == cf'.opts
        IN  /\ Lookup(conf', "metadata.broker.list") =
                    IF o.b # Unset THEN o.b
                    ELSE Lookup(conf, "metadata.broker.list")
            /\ partition' =
                    IF o.p # Unset THEN stoi(o.p).val
                    ELSE IF "asn1.j2735.kafka.partition" \in DOMAIN pconf
                        THEN stoi(pconf["asn1.j2735.kafka.partition"]).val
                        ELSE partition
            /\ Lookup(conf', "group.id") =
                    IF o.g # Unset THEN o.g ELSE Lookup(conf, "group.id")
            /\ o.o = Unset => offset' = offset
            /\ (o.o # Unset /\ OffsetParsable(o.o)) =>
                    offset' = OffsetNamed(o.o)
            /\ Lookup(conf', "debug") =
                    IF o.d # Unset THEN o.d ELSE Lookup(conf, "debug")
            /\ published_topic_name' =
                    IF o.t # Unset THEN o.t
                    ELSE Lookup(pconf, "asn1.j2735.topic.producer")
    ]_vars

\* the file names both topics and every override is given: the producer
\* topic is the one of the command line
C12_Witness ==
    /\ ConfigureDone
    /\ cf.rc = "true"
    /\ "asn1.j2735.topic.producer" \in FileKeys
    /\ cf.opts.t = "out"
    /\ published_topic_name = "out"
    /\ cf.opts.b # Unset
    /\ cf.opts.p # Unset
    /\ cf.opts.g # Unset
    /\ cf.opts.o = "end"
    /\ cf.opts.d # Unset

\* the partition the file gives is read (no -p) and spells no number
PartitionUnparsable ==
    /\ cf.opts.p = Unset
    /\ "asn1.j2735.kafka.partition" \in DOMAIN pconf
    /\ ~stoi(pconf["asn1.j2735.kafka.partition"]).ok

\* -o is given and names neither a symbolic position nor a number
OffsetUnparsable == cf.opts.o # Unset /\ ~OffsetParsable(cf.opts.o)

\* C13: when the partition value or the starting-offset value handed to
\* configure() spells no number (and the offset is none of end, beginning,
\* stored), configure() ends in a configuration error and operator()
\* returns a failure; it never succeeds with some value in its place.
C13_Original ==
    (ConfigureDone /\ (PartitionUnparsable \/ OffsetUnparsable)) =>
        /\ cf.rc # "true"
        /\ pc = "returned"
        /\ ret = EXIT_FAILURE


\* the file gives no consumer timeout, or one that spells no number
TimeoutDefaulted ==
    \/ "asn1.j2735.consumer.timeout.ms" \notin DOMAIN pconf
    \/ ~stoi(pconf["asn1.j2735.consumer.timeout.ms"]).ok

\* a reason other than the timeout for configure() to fail
OtherFailure ==
    \/ ~ConsumerTopicGiven
    \/ ~ProducerTopicGiven
    \/ PartitionUnparsable
    \/ cf.opts.g # Unset /\ ~conf_accepts("group.id", cf.opts.g)
    \/ cf.opts.d # Unset /\ ~conf_accepts("debug", cf.opts.d)

\* C14: when the file gives no consumer timeout or one that does not parse,
\* the timeout is no cause of failure (configure() succeeds unless something
\* else is wrong) and the consumer timeout is 500; and when the file names
\* the consumer topic 'raw' and the producer topic 'filtered' (no -t), the
\* consumed topics are exactly <<"raw">> and the produced topic 'filtered'.
C14_TimeoutDefaultAndTopics ==
    (ConfigureDone /\ TimeoutDefaulted) =>
        /\ consumer_timeout = DefaultConsumerTimeout
        /\ ~OtherFailure => cf.rc = "true"
        /\ ( /\ cf.rc = "true"
             /\ cf.opts.t = Unset
             /\ Lookup(pconf, "asn1.j2735.topic.consumer") = "raw"
             /\ Lookup(pconf, "asn1.j2735.topic.producer") = "filtered" )
            => /\ consumed_topics = <<"raw">>
               /\ published_topic_name = "filtered"

\* the file holds the two topic lines and no timeout: configure() succeeded
\* with the default timeout and the two topics
C14_Witness ==
    /\ ConfigureDone
    /\ cf.rc = "true"
    /\ cf.opts.t = Unset
    /\ FileKeys = {"asn1.j2735.topic.consumer", "asn1.j2735.topic.producer"}
    /\ consumer_timeout = DefaultConsumerTimeout
    /\ consumed_topics = <<"raw">>
    /\ published_topic_name = "filtered"


\* the domains holding a key: broker-level, topic-level, application-specific
DomainsOf(key) ==
    {d \in {"conf", "tconf", "pconf"} : key \in DOMAIN Stores[d]}

\* some line read so far gave the key with a value the predicate accepts
SomePair(key, accepts(_, _)) ==
    \E kv \in cf.pairs : kv[1] = key /\ accepts(kv[1], kv[2])

BothRejected(key, value) ==
    ~tconf_accepts(key, value) /\ ~conf_accepts(key, value)

\* C15, as stated: while and after the file is read, every key of a
\* key=value line is in exactly one of the three domains.
C15_Original ==
    cf.step = "lines" =>
        \A key \in FileKeys : Cardinality(DomainsOf(key)) = 1

\* C15: while and after the file is read, every key of a key=value line is
\* in at least one domain; it is in the topic-level domain exactly when that
\* domain accepted a pair with the key, in the broker-level domain exactly
\* when that domain accepted one, and in the application-specific map
\* exactly when both rejected one; and the domains hold no other key.
C15_ClassifiedByAcceptance ==
    cf.step = "lines" =>
        /\ \A key \in FileKeys :
            /\ DomainsOf(key) # {}
            /\ key \in DOMAIN tconf <=> SomePair(key, tconf_accepts)
            /\ key \in DOMAIN conf <=> SomePair(key, conf_accepts)
            /\ key \in DOMAIN pconf <=> SomePair(key, BothRejected)
        /\ DOMAIN conf \cup DOMAIN tconf \cup DOMAIN pconf \subseteq FileKeys

\* two lines read: one key held by the broker-level and the topic-level
\* domain at once, another by the application-specific map alone
C15_Witness ==
    /\ cf.step = "lines"
    /\ cf.lines = 2
    /\ DomainsOf("compression.codec") = {"conf", "tconf"}
    /\ DomainsOf("asn1.j2735.topic.consumer") = {"pconf"}


\* the step on which the ingestion loop handles one more line
LineStep == cf.step = "lines" /\ cf'.lines = cf.lines + 1

\* C20: each key=value line read is offered to the topic-level domain and
\* to the broker-level domain, each storing the pair exactly when it accepts
\* it whatever the other answered, and the pair is stored in the
\* application-specific map if and only if both rejected it; any other line
\* changes none of the three.
C20_OfferedToBothIndependently ==
    [][LineStep =>
        LET line == cf'.line
            key == line.pieces[1]
            value == line.pieces[2]
        IN  IF ~line.comment /\ Len(line.pieces) = 2
                THEN /\ tconf' = IF tconf_accepts(key, value)
                                    THEN Put(tconf, key, value) ELSE tconf
                     /\ conf' = IF conf_accepts(key, value)
                                    THEN Put(conf, key, value) ELSE conf
                     /\ pconf' = IF BothRejected(key, value)
                                    THEN Put(pconf, key, value) ELSE pconf
                ELSE UNCHANGED <<tconf, conf, pconf>>
    ]_vars

\* the line read last is one both domains accept: both hold its pair and
\* the application-specific map does not
C20_Witness ==
    /\ cf.step = "lines"
    /\ cf.line = Pair("compression.codec", "gzip")
    /\ Lookup(tconf, "compression.codec") = "gzip"
    /\ Lookup(conf, "compression.codec") = "gzip"
    /\ "compression.codec" \notin DOMAIN pconf


\* consumer_ptr->subscribe was called, whatever it answered
SubscribeAttempted == subscribed \/ h.failed = "subscribe"

\* the wait loop is over with every topic counted
ProberSucceeded == pc = "probe_done" /\ tcount = Len(consumed_topics)

\* C16: the wait loop ends with every topic counted, and subscribe is
\* called, only if a metadata lookup listed each topic of consumed_topics,
\* one topic after the other in the order of the list; up to then the topics
\* listed so far are the front of the list.
C16_SuccessOnlyWhenAllConfirmed ==
    /\ Len(h.confirmed) <= Len(consumed_topics)
    /\ h.confirmed = SubSeq(consumed_topics, 1, Len(h.confirmed))
    /\ (ProberSucceeded \/ SubscribeAttempted) => h.confirmed = consumed_topics

\* two different topics, each listed by a lookup, then the subscription
C16_Witness ==
    /\ subscribed
    /\ consumed_topics = <<"raw", "filtered">>
    /\ h.confirmed = <<"raw", "filtered">>

\* C17, as stated: when the flag is set while the wait loop still has an
\* unconfirmed topic, launch_consumer() gives up: subscribe is never called,
\* and once the wait loop is left the run has ended as cancelled.
C17_Original ==
    h.cancelled_waiting =>
        /\ ~SubscribeAttempted
        /\ pc \in {"probe", "metadata", "probe_done", "returned"}
        /\ pc = "returned" => h.failed = "cancelled"


\* what a step of the loop or of the signal handler shows
watched == <<pc, data_available, msg, h>>

\* C18: a signal that sets the flag while consume() is in flight leaves the
\* call running and its message untouched; the loop head that finds the
\* flag cleared leaves the loop; over the whole run at most one consume()
\* completes with the flag already cleared; and once the signal has arrived
\* in a run that entered the loop, operator() returns (for a run that has
\* not used up MaxPolls, beyond which no poll is modelled).
C18_SignalEndsLoopAfterOnePoll ==
    /\ [][ /\ (pc = "consume" /\ data_available /\ ~data_available') =>
                (pc' = "consume" /\ msg' = msg /\ h'.polls = h.polls)
           /\ (pc = "loop" /\ ~data_available /\ pc' # pc) => pc' = "summary"
           /\ h'.polls_after_flag <= 1
         ]_watched
    /\ (h.signalled /\ h.entered_loop /\ h.polls < MaxPolls)
            ~> (pc = "returned")

\* the signal arrived during the second consume(): that call completed with
\* the flag cleared, no other did, and operator() returned
C18_Witness ==
    /\ h.signalled
    /\ h.polls = 2
    /\ h.polls_after_flag = 1
    /\ pc = "returned"

\* configure() succeeded: both topic names are set
Configured ==
    /\ pc \notin {"start", "configure"}
    /\ h.failed # "configure"
    /\ consumed_topics # <<>>
    /\ published_topic_name # ""

\* C19: the consumer, the subscription and the producer exist only after
\* configure() succeeded; subscribe is called only with the consumer
\* created and every topic counted and listed by a lookup; the producer is
\* created only after the subscription succeeded; and consume() is called
\* only with the subscription made and the consumer, the producer and the
\* producer's topic created.
C19_StartupOrder ==
    /\ (consumer_ptr \/ subscribed \/ producer_ptr \/ published_topic_ptr)
            => Configured
    /\ SubscribeAttempted =>
            /\ consumer_ptr
            /\ tcount = Len(consumed_topics)
            /\ h.confirmed = consumed_topics
    /\ (pc = "launch_producer" \/ producer_ptr) => subscribed
    /\ published_topic_ptr => producer_ptr
    /\ (pc \in {"consume", "body"} \/ h.polls > 0) =>
            /\ subscribed
            /\ consumer_ptr
            /\ producer_ptr
            /\ published_topic_ptr

\* the first consume() has returned, after the whole startup
C19_Witness ==
    /\ pc = "body"
    /\ h.polls = 1
    /\ Configured
    /\ h.confirmed = <<"raw">>
    /\ subscribed
    /\ producer_ptr
    /\ published_topic_ptr


\* one pass of the wait loop's body has ended
LookupStep == pc = "metadata" /\ pc' = "probe"

\* C21: a metadata lookup that fails is handled as one that does not list
\* the topic: the topic is not counted, the loop sleeps and stays on the
\* same topic; with the flag still set to run, the loop's next step is a
\* new lookup of that topic; and while the last lookup is a failed one and
\* the flag is not cleared, launch_consumer() has not returned.
C21_FailedLookupIsRetried ==
    [][ /\ (LookupStep /\ h'.lookup = "error") =>
                /\ tcount' = tcount
                /\ topic_i' = topic_i
                /\ probes' = probes + 1
                /\ h'.confirmed = h.confirmed
                /\ UNCHANGED <<data_available, session, ret>>
        /\ ( /\ pc = "probe"
             /\ h.lookup \in {"error", "missing"}
             /\ data_available
             /\ <<pc, topic_i>>' # <<pc, topic_i>> ) =>
                (pc' = "metadata" /\ topic_i' = topic_i)
        /\ (h'.lookup = "error" /\ data_available') =>
                (pc' \in {"probe", "metadata"} /\ h'.failed = "none")
      ]_vars

\* a lookup failed, the loop slept, and the same topic is looked up again
C21_Witness ==
    /\ pc = "metadata"
    /\ h.lookup = "error"
    /\ probes >= 1
    /\ data_available
    /\ tcount = 0
    /\ topic_i = 1


\* C22: a loop body whose decode succeeds leaves first_block false, whether
\* or not the encode that follows succeeds; first_block changes from true to
\* false in no other step; and no step changes it from false to true.
C22_FirstBlockClearedOnce ==
    [][ /\ (BodyStep /\ it'.decode = "ok") => ~first_block'
        /\ (first_block /\ ~first_block') => (BodyStep /\ it'.decode = "ok")
        /\ ~first_block => ~first_block'
      ]_vars

\* the first decode succeeded and its encode failed (nothing was handed to
\* produce), then a decode failed: first_block is still false
C22_Witness ==
    /\ pc = "loop"
    /\ h.polls = 2
    /\ h.decoded
    /\ h.produce_calls = 0
    /\ it.decode = "fail"
    /\ it.fb = FALSE
    /\ ~first_block


\* C23: with exit_eof false, a loop body that handles a PARTITION_EOF
\* message leaves eof_cnt, data_available, first_block and every counter
\* as they were and makes no publish attempt; and as long as exit_eof is
\* false eof_cnt stays 0 and data_available is never cleared by the end of
\* a partition, however many PARTITION_EOF messages were polled.
C23_EofIgnoredWithoutExitFlag ==
    [][ /\ (BodyStep /\ msg.err = "PARTITION_EOF" /\ ~exit_eof) =>
                /\ UNCHANGED <<eof_cnt, data_available, first_block, counters>>
                /\ it'.produce = "none"
                /\ h'.produce_calls = h.produce_calls
        /\ ~exit_eof' => (eof_cnt' = 0 /\ ~h'.eof_exit)
      ]_vars

\* exit_eof is false, every message polled so far was a PARTITION_EOF, the
\* last of them went through the status handler, and the loop still runs
C23_Witness ==
    /\ ~exit_eof
    /\ pc = "loop"
    /\ h.polls >= 2
    /\ h.eofs_polled = h.polls
    /\ it.handled
    /\ msg.err = "PARTITION_EOF"
    /\ eof_cnt = 0
    /\ data_available


\* the loop body that just ended had a decode, an encode or a produce fail
MessageFailed(i) ==
    i.decode = "fail" \/ i.encode = "fail" \/ i.produce = "ERROR"

\* C24: a loop body in which the decode, the encode or the produce call
\* fails leaves data_available, eof_cnt and the sent counters as they were
\* (a failed decode or encode hands nothing to produce); and the loop head
\* that finds data_available still true goes on to the next consume().
C24_MessageFailureKeepsRunning ==
    [][ /\ (BodyStep /\ MessageFailed(it')) =>
                /\ UNCHANGED <<data_available, eof_cnt, msg_send_count,
                               msg_send_bytes>>
                /\ it'.produce \in {"none", "ERROR"}
                /\ (it'.decode = "fail" \/ it'.encode = "fail") =>
                        (it'.produce = "none" /\
                         h'.produce_calls = h.produce_calls)
        /\ (pc = "loop" /\ data_available /\ pc' # pc) => pc' = "consume"
      ]_vars

\* a produce call failed, nothing was counted as sent, and the next
\* consume() is under way
C24_Witness ==
    /\ pc = "consume"
    /\ it.produce = "ERROR"
    /\ h.produce_calls = 1
    /\ msg_send_count = 0
    /\ msg_recv_count = 1
    /\ data_available


\* C25: a loop body whose message has length 0 does not call the status
\* handler, whatever the message's status: no counter changes, eof_cnt,
\* first_block and data_available stay as they were, the decoder is not
\* called and nothing is handed to produce.
C25_ZeroLengthSkipsHandler ==
    [][(BodyStep /\ msg.len = 0) =>
        /\ ~it'.handled
        /\ it'.decode = "none"
        /\ it'.produce = "none"
        /\ h'.produce_calls = h.produce_calls
        /\ UNCHANGED <<counters, eof_cnt, first_block, data_available>>
      ]_vars

\* a message of length 0 with a fatal status went through the loop body
\* and the loop still runs
C25_Witness ==
    /\ pc = "loop"
    /\ msg.len = 0
    /\ msg.err = "UNKNOWN_PARTITION"
    /\ ~it.handled
    /\ h.fatal_polled
    /\ ~h.fatal_handled
    /\ data_available

\* C26: the sent count never exceeds the received count; no counter ever
\* decreases; counters change in loop bodies only; and a loop body raises
\* the sent count by at most one, and only when it also raised the
\* received count.
C26_CountersOrdered ==
    [][ /\ msg_send_count' <= msg_recv_count'
        /\ msg_recv_count' >= msg_recv_count
        /\ msg_recv_bytes' >= msg_recv_bytes
        /\ msg_send_count' >= msg_send_count
        /\ msg_send_bytes' >= msg_send_bytes
        /\ msg_filt_count' >= msg_filt_count
        /\ msg_filt_bytes' >= msg_filt_bytes
        /\ counters' # counters => BodyStep
        /\ msg_send_count' <= msg_send_count + 1
        /\ msg_send_count' > msg_send_count =>
                msg_recv_count' = msg_recv_count + 1
      ]_vars

\* three loop bodies, two of which published
C26_Witness ==
    /\ pc = "loop"
    /\ msg_recv_count = 3
    /\ msg_send_count = 2
    /\ msg_send_bytes >= 2

=============================================================================
